---- MODULE Spec2Model ----
(***************************************************************************)
(* Model of the experiment-orchestration code of neurometry:               *)
(*   estimators/curvature/main.py   main, main_sweep, main_run,            *)
(*                                  create_model_and_train_test,           *)
(*                                  training_plot_log,                     *)
(*                                  curvature_compute_plot_log             *)
(*   estimators/dimension/dimension.py  skdim_dimension_estimation,        *)
(*                                  evaluate_pls_with_different_K,         *)
(*                                  evaluate_PCA_with_different_K          *)
(*                                                                         *)
(* SpecMain models main(): the enumeration of default_config's parameter   *)
(* lists and the main_sweep calls it makes.  SpecRun models the runs of    *)
(* main_run that the tuner of a sweep starts.  SpecEval models the calls   *)
(* of the two evaluate_*_with_different_K functions, SpecDim the calls of  *)
(* skdim_dimension_estimation.                                             *)
(***************************************************************************)
EXTENDS Integers, Sequences, FiniteSets, TLC

(***************************************************************************)
(* Bounds of the model.                                                    *)
(***************************************************************************)
\* longest default_config.dataset_name list
MaxNames == 2
\* longest parameter list of default_config
MaxList == 2

(***************************************************************************)
(* Python values: None, bool, int, float (in tenths), str.                 *)
(***************************************************************************)
PyNone == [ty |-> "none", n |-> 0, s |-> ""]
PyBool(b) == [ty |-> "bool", n |-> IF b THEN 1 ELSE 0, s |-> ""]
PyInt(i) == [ty |-> "int", n |-> i, s |-> ""]
\* the float t/10
PyFloat(t) == [ty |-> "float", n |-> t, s |-> ""]
PyStr(str) == [ty |-> "str", n |-> 0, s |-> str]

\* a variable that holds nothing yet
NoValue == [ty |-> "unset"]

IsNumber(x) == x.ty \in {"bool", "int", "float"}
\* the numeric value, in tenths
Tenths(x) == IF x.ty = "float" THEN x.n ELSE 10 * x.n

\* Python's == on these values: numbers compare by value across bool, int
\* and float; a str equals only an equal str; None equals only None.
PyEq(x, y) ==
    IF IsNumber(x) /\ IsNumber(y) THEN Tenths(x) = Tenths(y)
    ELSE x.ty = y.ty /\ x.s = y.s

\* Python's truth value, as tested by `if select_gain_1:`
Truthy(x) ==
    CASE x.ty = "none" -> FALSE
      [] x.ty = "str" -> x.s # ""
      [] OTHER -> x.n # 0

\* format(x, ""), what an f-string replacement field {x} produces
Format(x) ==
    CASE x.ty = "none" -> "None"
      [] x.ty = "bool" -> IF x.n = 1 THEN "True" ELSE "False"
      [] x.ty = "int" -> ToString(x.n)
      [] x.ty = "float" -> ToString(x.n \div 10) \o "." \o ToString(x.n % 10)
      [] x.ty = "str" -> x.s

\* Python's == on two tuples of the same length
TupleEq(t, u) ==
    /\ Len(t) = Len(u)
    /\ \A i \in 1..Len(t) : PyEq(t[i], u[i])

(***************************************************************************)
(* default_config: the dataset names and the parameter lists.              *)
(***************************************************************************)
SyntheticNames == {"s1_synthetic", "s2_synthetic", "t2_synthetic"}
DatasetNames ==
    {"experimental", "grid_cells", "three_place_cells_synthetic"}
        \cup SyntheticNames

ExperimentalParams == <<"expt_id", "timestep_microsec", "smooth", "select_gain_1">>
SyntheticParams ==
    <<"n_times", "embedding_dim", "geodesic_distortion_amp", "noise_var">>
GridParams ==
    <<"grid_scale", "arena_dims", "n_cells", "grid_orientation_mean",
      "grid_orientation_std", "field_width", "resolution">>

Range(f) == {f[i] : i \in DOMAIN f}
ParamNames == Range(ExperimentalParams) \cup Range(SyntheticParams) \cup Range(GridParams)

\* the i-th value a parameter list of the configuration may hold
Candidate(p, i) ==
    CASE p = "expt_id" ->
            IF i % 2 = 1 THEN PyStr(ToString(34 + i \div 2))
            ELSE PyInt(34 + (i - 1) \div 2)
      [] p = "timestep_microsec" -> PyInt(1000000 * i)
      [] p = "smooth" -> PyBool(i % 2 = 1)
      [] p = "select_gain_1" ->
            IF i = 1 THEN PyBool(TRUE) ELSE IF i = 2 THEN PyBool(FALSE) ELSE PyNone
      [] p = "n_times" -> PyInt(1000 * i)
      [] p = "geodesic_distortion_amp" -> PyFloat(4 * i)
      [] p = "noise_var" -> PyFloat(i)
      [] p = "grid_scale" -> PyFloat(10 * i)
      [] p = "arena_dims" -> PyInt(8 * i)
      [] p = "n_cells" -> PyInt(2 * i)
      [] p = "grid_orientation_mean" -> PyInt(i - 1)
      [] p = "grid_orientation_std" -> PyFloat(i - 1)
      [] p = "field_width" -> PyFloat(i)
      [] p = "resolution" -> PyInt(50 * i)

EmbeddingDims == {2, 3}

SeqsUpTo(S, lo, hi) == UNION {[1..n -> S] : n \in lo..hi}

\* the parameter names whose lists main multiplies for a dataset name
FamilyParams(dataset_name) ==
    CASE dataset_name = "experimental" -> ExperimentalParams
      [] dataset_name \in SyntheticNames -> SyntheticParams
      [] dataset_name = "grid_cells" -> GridParams
      [] OTHER -> <<>>

\* the parameters whose lists main reads under a list of dataset names
ParamsRead(names) == UNION {Range(FamilyParams(names[i])) : i \in DOMAIN names}

\* the embedding_dim lists a configuration may hold under a list of names
DimLists(names) ==
    IF "embedding_dim" \in ParamsRead(names)
    THEN SeqsUpTo(EmbeddingDims, 1, MaxList) ELSE {<<3>>}

\* the lists of more than one value a configuration may hold besides
\* embedding_dim: none, or one parameter's, of 2 to MaxList values
VariedLists(names) ==
    {<<"none", 1>>} \cup ((ParamsRead(names) \ {"embedding_dim"}) \X (2..MaxList))

\* The configuration with the dataset names, the embedding dimensions
\* dims, varied[2] values for the parameter varied[1] and one value for
\* every other parameter.
MakeConfig(names, dims, varied) ==
    [dataset_name |-> names,
     embedding_dim |-> [i \in DOMAIN dims |-> PyInt(dims[i])],
     lists |-> [p \in ParamNames \ {"embedding_dim"} |->
                  [i \in 1..(IF p = varied[1] THEN varied[2] ELSE 1) |-> Candidate(p, i)]]]

\* default_config.<p>
ConfigList(c, p) == IF p = "embedding_dim" THEN c.embedding_dim ELSE c.lists[p]

(***************************************************************************)
(* itertools.product: the tuples in order, the rightmost list cycling      *)
(* fastest.  ProductTuple(lists, k) is the tuple at 0-based position k.    *)
(***************************************************************************)
RECURSIVE ProductSize(_)
ProductSize(lists) ==
    IF lists = <<>> THEN 1 ELSE Len(Head(lists)) * ProductSize(Tail(lists))

\* the product with the leftmost list cycling fastest
ProductTupleLeftFastest(lists, k) ==
    [j \in 1..Len(lists) |->
        lists[j][((k \div ProductSize(SubSeq(lists, 1, j - 1))) % Len(lists[j])) + 1]]

ProductTuple(lists, k) ==
    [j \in 1..Len(lists) |->
        lists[j][((k \div ProductSize(SubSeq(lists, j + 1, Len(lists)))) % Len(lists[j])) + 1]]

FamilyLists(c, dataset_name) ==
    [j \in 1..Len(FamilyParams(dataset_name)) |-> ConfigList(c, FamilyParams(dataset_name)[j])]

\* the keyword arguments main builds from the tuple at position k
Kwargs(c, dataset_name, k) ==
    LET names == FamilyParams(dataset_name)
        tuple == ProductTuple(FamilyLists(c, dataset_name), k)
    IN  [p \in Range(names) |-> tuple[CHOOSE j \in 1..Len(names) : names[j] = p]]

(***************************************************************************)
(* The sweep names main builds (main.py lines 59-63, 95-96, 124-125, 139). *)
(***************************************************************************)
SweepNameExperimental(dataset_name, kw) ==
    dataset_name \o "_" \o Format(kw["expt_id"])
        \o (IF Truthy(kw["select_gain_1"]) THEN "_gain_1" ELSE "_other_gain")

SweepNameSynthetic(dataset_name, kw) ==
    dataset_name \o "_noise_var_" \o Format(kw["noise_var"])
        \o "_embedding_dim_" \o Format(kw["embedding_dim"])

SweepNameGrid(dataset_name, kw) ==
    dataset_name \o "_orientation_std_" \o Format(kw["grid_orientation_std"])
        \o "_ncells_" \o Format(kw["n_cells"])

SweepNameThreePlace(dataset_name) == dataset_name

\* the validation with the bound off by one
RejectsEmbeddingBelowTwo(dataset_name, embedding_dim) ==
    /\ dataset_name \in {"s2_synthetic", "t2_synthetic"}
    /\ embedding_dim.n < 2

\* the validation of main.py lines 87-93
RejectsEmbedding(dataset_name, embedding_dim) ==
    /\ dataset_name \in {"s2_synthetic", "t2_synthetic"}
    /\ embedding_dim.n <= 2

\* arguments in which every parameter the call does not name takes a value
\* of its list in default_config
MainSweepArgsFromConfig(sweep_name, dataset_name, kw) ==
    [sweep_name |-> sweep_name,
     dataset_name |-> dataset_name,
     params |-> [p \in ParamNames |->
                   IF p \in DOMAIN kw THEN kw[p]
                   ELSE IF p = "embedding_dim" THEN PyInt(3) ELSE Candidate(p, 1)]]

\* The arguments main_sweep receives: every parameter that the call does
\* not name takes its default, None (main.py lines 147-165).
MainSweepArgs(sweep_name, dataset_name, kw) ==
    [sweep_name |-> sweep_name,
     dataset_name |-> dataset_name,
     params |-> [p \in ParamNames |-> IF p \in DOMAIN kw THEN kw[p] ELSE PyNone]]

(***************************************************************************)
(* State of main().                                                        *)
(***************************************************************************)
VARIABLES
    cfg,     \* default_config: dataset names and parameter lists
    m_pc,    \* "loop", "sweep" while main_sweep runs, "done", or "raised"
             \* once the ValueError has left main
    m_i,     \* position in default_config.dataset_name of the current name
    m_k,     \* how many tuples of the current product have been taken
    calls,   \* the main_sweep calls made so far, in order
    fits     \* the sweep names whose tuner.fit() has returned, in order

mainVars == <<cfg, m_pc, m_i, m_k, calls, fits>>

(***************************************************************************)
(* State of main_run, the trainable that the tuner of a sweep runs.        *)
(***************************************************************************)
VARIABLES
    env,           \* the rest of default_config and the machine: posterior
                   \* types, output directories, whether CUDA is available
    prev,          \* what the run before the current one left behind
    r_pc,          \* position of the current run in main_run
    run,           \* the run's inputs: main_sweep's arguments, the values the
                   \* tuner chose, wandb.run.id
    wandb_config,  \* wandb.config, a mapping
    run_name,      \* the local run_name
    files,         \* paths the current run has written
    config_json,   \* the mapping dumped to the config JSON
    rng,           \* states of the Python, torch and CUDA generators
    models,        \* the models instantiated by create_model_and_train_test
    optimizer,     \* the optimizer it built
    trained,       \* the arguments of its train.train_test call
    test_losses,   \* the test losses train.train_test returned
    wlog,          \* the key sets of the wandb.log calls, in order
    trace,         \* the steps the run has taken, in order
    metric,        \* what main_run returned to the tuner
    c_assigned,    \* the names curvature_compute_plot_log has assigned: its
                   \* parameters, its locals, the columns of its data frames
    c_unbound      \* the names it read before anything was assigned to them

curvVars == <<c_assigned, c_unbound>>

runVars == <<env, prev, r_pc, run, wandb_config, run_name, files, config_json,
             rng, models, optimizer, trained, test_losses, wlog, trace, metric,
             curvVars>>

(***************************************************************************)
(* State of evaluate_pls_with_different_K / evaluate_PCA_with_different_K  *)
(* (dimension.py lines 120-211).                                           *)
(***************************************************************************)
VARIABLES
    e_pc,          \* position in the function
    e_func,        \* which of the two functions was called
    e_args,        \* its arguments: the data (X, Y) and K_values
    e_splits,      \* the train/test splits made so far, in order
    e_i,           \* how many elements of K_values the loop has taken
    r2_scores,     \* the local list r2_scores
    projected_X,   \* the local list projected_X
    e_ret          \* the returned value

evalVars == <<e_pc, e_func, e_args, e_splits, e_i, r2_scores, projected_X, e_ret>>

(***************************************************************************)
(* State of skdim_dimension_estimation (dimension.py lines 19-55).         *)
(***************************************************************************)
VARIABLES
    d_pc,          \* position in the function
    d_args,        \* its arguments
    d_methods,     \* the local `methods` after lines 29-30
    d_noise,       \* the local noise_level
    d_mi,          \* how many method names the outer loop has taken
    d_di,          \* how many dimensions the loop of line 40 has taken
    d_ti,          \* how many trials the loop of line 50 has made
    d_clouds,      \* the point clouds generated so far, in order
    d_fits,        \* the method.fit calls made so far, in order
    estimates,     \* the local matrix `estimates`
    id_estimates,  \* the local dict id_estimates
    d_ret          \* the returned value

dimVars == <<d_pc, d_args, d_methods, d_noise, d_mi, d_di, d_ti, d_clouds, d_fits,
             estimates, id_estimates, d_ret>>

vars == <<mainVars, runVars, evalVars, dimVars>>

DimIdle ==
    /\ d_pc = "idle"
    /\ d_args = NoValue
    /\ d_methods = <<>>
    /\ d_noise = NoValue
    /\ d_mi = 0
    /\ d_di = 0
    /\ d_ti = 0
    /\ d_clouds = <<>>
    /\ d_fits = <<>>
    /\ estimates = <<>>
    /\ id_estimates = <<>>
    /\ d_ret = NoValue

EvalIdle ==
    /\ e_pc = "idle"
    /\ e_func = ""
    /\ e_args = NoValue
    /\ e_splits = <<>>
    /\ e_i = 0
    /\ r2_scores = <<>>
    /\ projected_X = <<>>
    /\ e_ret = NoValue


(***************************************************************************)
(* main_sweep: the two configurations it builds (main.py lines 191-252).   *)
(***************************************************************************)
\* a Python dict as a value
PyDict(items) == [ty |-> "dict", n |-> 0, s |-> "", items |-> items]

PosteriorTags == <<"gaussian", "hyperspherical", "toroidal", "klein_bottle", "other">>
DatasetOrder ==
    <<"experimental", "s1_synthetic", "s2_synthetic", "t2_synthetic", "grid_cells",
      "three_place_cells_synthetic">>
IndexOf(seq, x) == CHOOSE i \in 1..Len(seq) : seq[i] = x

\* default_config.posterior_type, one of the mappings the model starts
\* from: shift r pairs every dataset name with every tag
PosteriorType(r, dataset_name) ==
    PosteriorTags[((IndexOf(DatasetOrder, dataset_name) - 1 + r) % Len(PosteriorTags)) + 1]

PerDatasetKeys ==
    {"manifold_dim", "latent_dim", "posterior_type", "geodesic_distortion_func",
     "n_wiggles", "radius", "major_radius", "minor_radius", "synthetic_rotation"}
ElseKeys ==
    {"device", "log_interval", "checkpt_interval", "batch_shuffle", "scheduler",
     "n_epochs", "alpha", "beta", "gamma", "gamma_moving", "gamma_dynamic", "sftbeta",
     "gen_likelihood_type", "n_grid_points"}
FixedKeys == {"dataset_name", "sweep_name"} \cup ParamNames \cup PerDatasetKeys \cup ElseKeys
ChoiceKeys ==
    {"lr", "batch_size", "encoder_width", "encoder_depth", "decoder_width",
     "decoder_depth", "drop_out_p"}
SweepKeys == ChoiceKeys \cup {"wandb"}

\* default_config.<key>[dataset_name]
DefaultPerDataset(e, key, dataset_name) ==
    CASE key = "posterior_type" -> PyStr(PosteriorType(e.posterior, dataset_name))
      [] key = "manifold_dim" ->
            PyInt(IF dataset_name \in {"s2_synthetic", "t2_synthetic", "grid_cells"}
                  THEN 2 ELSE 1)
      [] key = "latent_dim" -> PyInt(2)
      [] key = "geodesic_distortion_func" -> PyStr("wiggles")
      [] key = "n_wiggles" -> PyInt(3)
      [] key = "synthetic_rotation" -> PyStr("random")
      [] OTHER -> PyInt(1)

\* default_config.<key>
DefaultElse(e, key) ==
    CASE key = "device" -> PyStr(IF e.cuda THEN "cuda" ELSE "cpu")
      [] key = "batch_shuffle" -> PyBool(TRUE)
      [] key = "scheduler" -> PyBool(FALSE)
      [] key = "gen_likelihood_type" -> PyStr("gaussian")
      [] key = "gamma" -> PyFloat(300)
      [] key = "sftbeta" -> PyFloat(45)
      [] key = "n_grid_points" -> PyInt(100)
      [] OTHER -> PyInt(1)

\* fixed_config, lines 205-252
FixedConfig(e, call) ==
    [key \in FixedKeys |->
        CASE key = "dataset_name" -> PyStr(call.dataset_name)
          [] key = "sweep_name" -> PyStr(call.sweep_name)
          [] key \in ParamNames -> call.params[key]
          [] key \in PerDatasetKeys -> DefaultPerDataset(e, key, call.dataset_name)
          [] OTHER -> DefaultElse(e, key)]

\* the lists sweep_config hands to tune.choice, lines 193-199
ChoiceList(key) ==
    CASE key = "lr" -> <<PyFloat(1), PyFloat(2)>>
      [] key = "batch_size" -> <<PyInt(16)>>
      [] key = "encoder_width" -> <<PyInt(400)>>
      [] key = "encoder_depth" -> <<PyInt(4)>>
      [] key = "decoder_width" -> <<PyInt(400)>>
      [] key = "decoder_depth" -> <<PyInt(4)>>
      [] key = "drop_out_p" -> <<PyFloat(0)>>

ApiKey == PyStr("api_key_value")

\* a sweep configuration that holds the API key itself under "wandb"
SweepConfigsKeyUnwrapped ==
    { [key \in SweepKeys |-> IF key = "wandb" THEN ApiKey ELSE ChoiceList(key)[pick[key]]] :
        pick \in {f \in [ChoiceKeys -> {1, 2}] :
                     \A k \in ChoiceKeys : f[k] <= Len(ChoiceList(k))} }

\* The configurations the tuner can pass to main_run: every tune.choice is
\* resolved to one element of its list, everything else of sweep_config is
\* passed as it is (lines 191-203).
SweepConfigs ==
    { [key \in SweepKeys |->
          IF key = "wandb" THEN PyDict([api_key |-> ApiKey]) ELSE ChoiceList(key)[pick[key]]] :
        pick \in {f \in [ChoiceKeys -> {1, 2}] :
                     \A k \in ChoiceKeys : f[k] <= Len(ChoiceList(k))} }

\* dict.update: the keys of both, the values of `other` where both have one
Update(d, other) ==
    [key \in DOMAIN d \cup DOMAIN other |-> IF key \in DOMAIN other THEN other[key] ELSE d[key]]

\* the configuration whose sweeps the runs of the model belong to
SweepsConfig == MakeConfig(DatasetOrder, <<3>>, <<"none", 1>>)

SweepNameOf(dataset_name, kw) ==
    CASE dataset_name = "experimental" -> SweepNameExperimental(dataset_name, kw)
      [] dataset_name \in SyntheticNames -> SweepNameSynthetic(dataset_name, kw)
      [] dataset_name = "grid_cells" -> SweepNameGrid(dataset_name, kw)
      [] OTHER -> SweepNameThreePlace(dataset_name)

\* the main_sweep calls main makes under SweepsConfig
SweepCalls ==
    { LET kw == Kwargs(SweepsConfig, d, 0)
      IN  MainSweepArgs(SweepNameOf(d, kw), d, kw) : d \in DatasetNames }

\* wandb.run.id of a run
RunIds == {"a1b2", "c3d4"}

(***************************************************************************)
(* main_run (main.py lines 255-301).                                       *)
(***************************************************************************)
\* a run name that leaves the run id out
RunNameWithoutId(run_id, sweep_name) == "run_" \o sweep_name

\* line 261
RunName(run_id, sweep_name) == "run_" \o run_id \o "_" \o sweep_name

\* os.path.join of a directory and a relative file name
PathJoin(dir, name) == dir \o "/" \o name

\* line 277
ConfigPath(e, name) == PathJoin(e.configs_dir, name \o ".json")

\* the shape of the dataset utils.load returns for a configuration
DataShape(config) ==
    [n_times |-> IF config["n_times"].ty = "int" THEN config["n_times"] ELSE PyInt(500),
     dim |-> IF config["embedding_dim"].ty = "int" THEN config["embedding_dim"] ELSE PyInt(40)]

\* lines 267-274
RunKeys(name, shape) ==
    [run_name |-> PyStr(name), results_prefix |-> PyStr(name),
     data_n_times |-> shape.n_times, data_dim |-> shape.dim]

\* the generator states a run can be in after random draws
MaxRng == 1
RngValues == 0..MaxRng

\* a seeding that leaves out torch.manual_seed(0)
SeedAllButTorch(r, cuda_available) ==
    [py |-> 0, torch |-> r.torch, cuda |-> IF cuda_available THEN 0 ELSE r.cuda]

\* random.seed(0); torch.manual_seed(0); and, if CUDA is available,
\* torch.cuda.manual_seed_all(0)  (lines 343-346, 359-362, 374-377)
SeedAll(r, cuda_available) ==
    [py |-> 0, torch |-> 0, cuda |-> IF cuda_available THEN 0 ELSE r.cuda]

\* the generator states random draws can lead to: without CUDA there is no
\* CUDA generator to draw from
DrawnRng(cuda_available) ==
    [py : RngValues, torch : RngValues, cuda : IF cuda_available THEN RngValues ELSE {0}]

\* a dispatch whose first branch also takes the toroidal tag
ModelClassToroidalAsNeural(posterior_type) ==
    CASE posterior_type \in {"gaussian", "hyperspherical", "toroidal"} -> "NeuralVAE"
      [] posterior_type = "klein_bottle" -> "KleinBottleVAE"
      [] OTHER -> "none"

\* a dispatch that ends in an else branch building a NeuralVAE
ModelClassElseNeural(posterior_type) ==
    CASE posterior_type = "toroidal" -> "ToroidalVAE"
      [] posterior_type = "klein_bottle" -> "KleinBottleVAE"
      [] OTHER -> "NeuralVAE"

\* the dispatch on config.posterior_type, lines 342, 358, 373
ModelClass(posterior_type) ==
    CASE posterior_type \in {"gaussian", "hyperspherical"} -> "NeuralVAE"
      [] posterior_type = "toroidal" -> "ToroidalVAE"
      [] posterior_type = "klein_bottle" -> "KleinBottleVAE"
      [] OTHER -> "none"

\* a model path named by the sweep instead of the run
ModelPathBySweep(e, config) ==
    PathJoin(e.trained_models_dir, config["sweep_name"].s \o "_model.pt")

\* lines 420-422 and 424-427
ModelPath(e, config) ==
    PathJoin(e.trained_models_dir, config["results_prefix"].s \o "_model.pt")
StateDictPath(e, config) ==
    PathJoin(e.trained_models_dir, config["results_prefix"].s \o "_model_state_dict.pth")
\* lines 497-500 and 535-538
LearnedProfilePath(e, config) ==
    PathJoin(e.curvature_profiles_dir,
             config["results_prefix"].s \o "_curv_norm_learned_profile.csv")
TrueProfilePath(e, config) ==
    PathJoin(e.curvature_profiles_dir,
             config["results_prefix"].s \o "_curv_norm_true_profile.csv")

\* a test that also takes the other two-dimensional dataset
HasTrueCurvatureOrGrid(dataset_name) ==
    dataset_name \in {"s1_synthetic", "s2_synthetic", "t2_synthetic", "grid_cells"}

\* the test of lines 507, 549 and 577
HasTrueCurvature(dataset_name) ==
    dataset_name \in {"s1_synthetic", "s2_synthetic", "t2_synthetic"}

\* a test that leaves out the place cells
HasNeuralManifoldFigureOnCircle(dataset_name) ==
    dataset_name \in {"s1_synthetic", "experimental"}

\* the test of lines 558-562
HasNeuralManifoldFigure(dataset_name) ==
    dataset_name \in {"s1_synthetic", "experimental", "three_place_cells_synthetic"}

RECURSIVE SeqMin(_)
SeqMin(q) ==
    IF Len(q) = 1 THEN q[1]
    ELSE LET m == SeqMin(Tail(q)) IN IF q[1] < m THEN q[1] ELSE m

\* the last test loss instead of the smallest
MetricLast(losses) == [test_loss |-> losses[Len(losses)]]

\* line 301
Metric(losses) == [test_loss |-> SeqMin(losses)]

\* the test losses train.train_test returns, one per epoch; the generators
\* being seeded, they are a function of the configuration
TestLosses(config) == IF config["lr"] = ChoiceList("lr")[1] THEN <<3, 1, 2>> ELSE <<2, 4>>

\* a step is recorded once, however many actions it takes
Step(tr, name) == IF tr # <<>> /\ tr[Len(tr)] = name THEN tr ELSE Append(tr, name)

\* what a run leaves behind
RunRecord ==
    [fixed |-> FixedConfig(env, run.call),
     chosen |-> run.sweep_config,
     run_id |-> run.run_id,
     run_name |-> run_name,
     files |-> files,
     init_rng |-> IF models = <<>> THEN NoValue ELSE models[1].init_rng,
     outcome |-> r_pc]

\* the largest shift of default_config.posterior_type the model starts from
MaxShift == 1

\* The settings the runs of the model can find: default_config.posterior_type
\* shifted by 0 to MaxShift, on a machine with CUDA that keeps one directory
\* for each kind of output, or on one without CUDA that keeps them all in one.
Envs ==
    { [posterior |-> r, cuda |-> c,
       configs_dir |-> IF c THEN "configs" ELSE "results",
       trained_models_dir |-> IF c THEN "trained_models" ELSE "results",
       curvature_profiles_dir |-> IF c THEN "curvature_profiles" ELSE "results"] :
        r \in 0..MaxShift, c \in BOOLEAN }

\* no run has started: nothing has seeded the generators, which are in
\* whatever state the process has left them
RunFresh ==
    /\ prev = NoValue
    /\ r_pc = "idle"
    /\ run = NoValue
    /\ wandb_config = <<>>
    /\ run_name = ""
    /\ files = {}
    /\ config_json = NoValue
    /\ rng \in DrawnRng(env.cuda)
    /\ models = <<>>
    /\ optimizer = NoValue
    /\ trained = NoValue
    /\ test_losses = <<>>
    /\ wlog = <<>>
    /\ trace = <<>>
    /\ metric = NoValue
    /\ c_assigned = {}
    /\ c_unbound = {}

RunIdle ==
    /\ env = [posterior |-> 0, cuda |-> FALSE, configs_dir |-> "configs",
              trained_models_dir |-> "trained_models",
              curvature_profiles_dir |-> "curvature_profiles"]
    /\ RunFresh
    /\ rng = [py |-> 1, torch |-> 1, cuda |-> 0]

InLoop == m_pc = "loop" /\ m_i <= Len(cfg.dataset_name)
CurrentName == cfg.dataset_name[m_i]
\* how many iterations the branch of the current dataset name makes
CurrentSize ==
    IF CurrentName = "three_place_cells_synthetic" THEN 1
    ELSE IF FamilyParams(CurrentName) = <<>> THEN 0
    ELSE ProductSize(FamilyLists(cfg, CurrentName))

\* main starts under a configuration of up to MaxNames dataset names whose
\* lists hold up to MaxList values; the lists main does not read under the
\* dataset names hold one value
InitMain ==
    /\ \E names \in SeqsUpTo(DatasetNames, 0, MaxNames) :
          \E dims \in DimLists(names), varied \in VariedLists(names) :
             cfg = MakeConfig(names, dims, varied)
    /\ m_pc = "loop"
    /\ m_i = 1
    /\ m_k = 0
    /\ calls = <<>>
    /\ fits = <<>>
    /\ RunIdle
    /\ EvalIdle
    /\ DimIdle

\* one iteration of the loop of lines 48-73
MainExperimental ==
    /\ InLoop
    /\ CurrentName = "experimental"
    /\ m_k < CurrentSize
    /\ LET kw == Kwargs(cfg, CurrentName, m_k)
       IN  calls' = Append(calls,
               MainSweepArgs(SweepNameExperimental(CurrentName, kw), CurrentName, kw))
    /\ m_k' = m_k + 1
    /\ m_pc' = "sweep"
    /\ UNCHANGED <<cfg, m_i, fits>>
    /\ UNCHANGED <<runVars, evalVars, dimVars>>

\* one iteration of the loop of lines 76-105 that passes the validation
MainSynthetic ==
    /\ InLoop
    /\ CurrentName \in SyntheticNames
    /\ m_k < CurrentSize
    /\ LET kw == Kwargs(cfg, CurrentName, m_k)
       IN  /\ ~RejectsEmbedding(CurrentName, kw["embedding_dim"])
           /\ calls' = Append(calls,
                  MainSweepArgs(SweepNameSynthetic(CurrentName, kw), CurrentName, kw))
    /\ m_k' = m_k + 1
    /\ m_pc' = "sweep"
    /\ UNCHANGED <<cfg, m_i, fits>>
    /\ UNCHANGED <<runVars, evalVars, dimVars>>

\* the iteration of the loop of lines 76-105 that raises ValueError: nothing
\* in main catches it
MainSyntheticRaise ==
    /\ InLoop
    /\ CurrentName \in SyntheticNames
    /\ m_k < CurrentSize
    /\ RejectsEmbedding(CurrentName, Kwargs(cfg, CurrentName, m_k)["embedding_dim"])
    /\ m_pc' = "raised"
    /\ UNCHANGED <<cfg, m_i, m_k, calls, fits>>
    /\ UNCHANGED <<runVars, evalVars, dimVars>>

\* one iteration of the loop of lines 107-137
MainGridCells ==
    /\ InLoop
    /\ CurrentName = "grid_cells"
    /\ m_k < CurrentSize
    /\ LET kw == Kwargs(cfg, CurrentName, m_k)
       IN  calls' = Append(calls,
               MainSweepArgs(SweepNameGrid(CurrentName, kw), CurrentName, kw))
    /\ m_k' = m_k + 1
    /\ m_pc' = "sweep"
    /\ UNCHANGED <<cfg, m_i, fits>>
    /\ UNCHANGED <<runVars, evalVars, dimVars>>

\* lines 138-144
MainThreePlaceCells ==
    /\ InLoop
    /\ CurrentName = "three_place_cells_synthetic"
    /\ m_k < CurrentSize
    /\ calls' = Append(calls,
           MainSweepArgs(SweepNameThreePlace(CurrentName), CurrentName, <<>>))
    /\ m_k' = m_k + 1
    /\ m_pc' = "sweep"
    /\ UNCHANGED <<cfg, m_i, fits>>
    /\ UNCHANGED <<runVars, evalVars, dimVars>>

\* main_sweep, lines 313-327: the tuner runs the sweep's runs, tuner.fit()
\* returns when the sweep is over, and main_sweep returns to main's loop
MainSweepFit ==
    /\ m_pc = "sweep"
    /\ fits' = Append(fits, calls[Len(calls)].sweep_name)
    /\ m_pc' = "loop"
    /\ UNCHANGED <<cfg, m_i, m_k, calls>>
    /\ UNCHANGED <<runVars, evalVars, dimVars>>

\* the branch of the current name is finished: line 45 takes the next name
MainNextDataset ==
    /\ InLoop
    /\ m_k = CurrentSize
    /\ m_i' = m_i + 1
    /\ m_k' = 0
    /\ UNCHANGED <<cfg, m_pc, calls, fits>>
    /\ UNCHANGED <<runVars, evalVars, dimVars>>

\* default_config.dataset_name is exhausted: main returns
MainReturn ==
    /\ m_pc = "loop"
    /\ m_i > Len(cfg.dataset_name)
    /\ m_pc' = "done"
    /\ UNCHANGED <<cfg, m_i, m_k, calls, fits>>
    /\ UNCHANGED <<runVars, evalVars, dimVars>>

NextMain ==
    \/ MainExperimental
    \/ MainSynthetic
    \/ MainSyntheticRaise
    \/ MainGridCells
    \/ MainThreePlaceCells
    \/ MainSweepFit
    \/ MainNextDataset
    \/ MainReturn

SpecMain == InitMain /\ [][NextMain]_vars

(***************************************************************************)
(* Claims about main().                                                    *)
(***************************************************************************)
\* the tuple of parameter values main took for a call
CallTuple(call) ==
    [j \in 1..Len(FamilyParams(call.dataset_name)) |->
        call.params[FamilyParams(call.dataset_name)[j]]]

\* C1: two main_sweep calls made for the same dataset name from distinct
\* parameter tuples are given different sweep names.
C1_SweepNamesUnique ==
    \A i, j \in 1..Len(calls) :
        (/\ calls[i].dataset_name = calls[j].dataset_name
         /\ ~TupleEq(CallTuple(calls[i]), CallTuple(calls[j])))
            => calls[i].sweep_name # calls[j].sweep_name

\* how many iterations main has made before the one at (i, k)
RECURSIVE IterationsBefore(_, _)
IterationsBefore(i, k) ==
    IF i <= 1 THEN k
    ELSE LET name == cfg.dataset_name[i - 1]
         IN  IterationsBefore(i - 1,
                 IF name = "three_place_cells_synthetic" THEN 1
                 ELSE ProductSize(FamilyLists(cfg, name))) + k

\* a combination whose embedding dimension is too small for its manifold
TooSmall(dataset_name, embedding_dim) ==
    /\ dataset_name = "s2_synthetic" \/ dataset_name = "t2_synthetic"
    /\ embedding_dim.ty = "int"
    /\ embedding_dim.n < 3

C2_State ==
    \* the error is raised only at a combination that is too small
    /\ m_pc = "raised" =>
          /\ m_i <= Len(cfg.dataset_name)
          /\ m_k < CurrentSize
          /\ TooSmall(CurrentName, ConfigList(cfg, "embedding_dim")
                 [((m_k \div (Len(ConfigList(cfg, "geodesic_distortion_amp"))
                                * Len(ConfigList(cfg, "noise_var"))))
                    % Len(ConfigList(cfg, "embedding_dim"))) + 1])
    \* and at every such combination: none of them reaches main_sweep
    /\ \A c \in 1..Len(calls) :
          ~TooSmall(calls[c].dataset_name, calls[c].params["embedding_dim"])
    \* every iteration before the current one called main_sweep, the
    \* current one has not
    /\ Len(calls) = IterationsBefore(m_i, m_k)

\* C2: ValueError is raised exactly at the combinations of s2_synthetic or
\* t2_synthetic with embedding_dim <= 2, before main_sweep is called for the
\* combination, and once it is raised main calls main_sweep no more.
C2_ValueErrorEndsMain ==
    /\ []C2_State
    /\ [][m_pc = "raised" => (m_pc' = "raised" /\ calls' = calls)]_vars

\* the error is raised after some sweeps ran and with a dataset name left
C2_Witness ==
    /\ m_pc = "raised"
    /\ Len(calls) > 0
    /\ m_i < Len(cfg.dataset_name)

(***************************************************************************)
(* SpecRun: the runs of main_run, one after another.  Every run belongs to *)
(* one of the sweeps of SweepCalls and gets the values the tuner chose and *)
(* the run id wandb gave it.                                               *)
(***************************************************************************)
Config(key) == wandb_config[key]

\* main has not started
MainIdle ==
    /\ cfg = SweepsConfig
    /\ m_pc = "loop"
    /\ m_i = 1
    /\ m_k = 0
    /\ calls = <<>>
    /\ fits = <<>>

InitRun ==
    /\ MainIdle
    /\ env \in Envs
    /\ RunFresh
    /\ EvalIdle
    /\ DimIdle

\* line 256: the tuner calls main_run; wandb.init starts a dashboard run.
\* Nothing is seeded here: the generators keep the state they are in.
RunStart ==
    /\ r_pc \in {"idle", "returned", "failed"}
    /\ \E call \in SweepCalls, sc \in SweepConfigs, id \in RunIds :
          run' = [call |-> call, sweep_config |-> sc, run_id |-> id]
    /\ prev' = IF r_pc = "idle" THEN prev ELSE RunRecord
    /\ r_pc' = "init"
    /\ wandb_config' = <<>>
    /\ run_name' = ""
    /\ files' = {}
    /\ config_json' = NoValue
    /\ models' = <<>>
    /\ optimizer' = NoValue
    /\ trained' = NoValue
    /\ test_losses' = <<>>
    /\ wlog' = <<>>
    /\ trace' = <<>>
    /\ metric' = NoValue
    /\ c_assigned' = {}
    /\ c_unbound' = {}
    /\ UNCHANGED <<mainVars, evalVars, dimVars, env, rng>>

\* lines 257-262
RunMerge ==
    /\ r_pc = "init"
    /\ wandb_config' = Update(Update(wandb_config, FixedConfig(env, run.call)),
                              run.sweep_config)
    /\ run_name' = RunName(run.run_id, run.call.sweep_name)
    /\ trace' = Step(trace, "merge_config")
    /\ r_pc' = "merged"
    /\ UNCHANGED <<mainVars, evalVars, dimVars, curvVars, env, prev, run, files, config_json, rng, models, optimizer,
                   trained, test_losses, wlog, metric>>

\* lines 265-274: loading may draw from the random generators
RunLoad ==
    /\ r_pc = "merged"
    /\ wandb_config' = Update(wandb_config, RunKeys(run_name, DataShape(wandb_config)))
    /\ rng' \in DrawnRng(env.cuda)
    /\ trace' = Step(trace, "load_dataset")
    /\ r_pc' = "loaded"
    /\ UNCHANGED <<mainVars, evalVars, dimVars, curvVars, env, prev, run, run_name, files, config_json, models,
                   optimizer, trained, test_losses, wlog, metric>>

\* lines 277-279
RunWriteConfig ==
    /\ r_pc = "loaded"
    /\ files' = files \cup {ConfigPath(env, run_name)}
    /\ config_json' = wandb_config
    /\ trace' = Step(trace, "write_config")
    /\ r_pc' = "config_written"
    /\ UNCHANGED <<mainVars, evalVars, dimVars, curvVars, env, prev, run, wandb_config, run_name, rng, models,
                   optimizer, trained, test_losses, wlog, metric>>

(***************************************************************************)
(* create_model_and_train_test (lines 330-406)                             *)
(***************************************************************************)
\* the branch taken seeds the generators: lines 343-346, 359-362, 374-377
CreateSeed ==
    /\ r_pc = "config_written"
    /\ ModelClass(Config("posterior_type").s) # "none"
    /\ rng' = SeedAll(rng, env.cuda)
    /\ trace' = Step(trace, "instantiate_model")
    /\ r_pc' = "seeded"
    /\ UNCHANGED <<mainVars, evalVars, dimVars, curvVars, env, prev, run, wandb_config, run_name, files, config_json,
                   models, optimizer, trained, test_losses, wlog, metric>>

\* and constructs the model: lines 347-357, 363-372, 378-387
CreateModel ==
    /\ r_pc = "seeded"
    /\ models' = Append(models,
           [cls |-> ModelClass(Config("posterior_type").s),
            id |-> Len(models) + 1,
            posterior_type |-> Config("posterior_type").s,
            init_rng |-> rng])
    /\ trace' = Step(trace, "instantiate_model")
    /\ r_pc' = "model"
    /\ UNCHANGED <<mainVars, evalVars, dimVars, curvVars, env, prev, run, wandb_config, run_name, files, config_json,
                   rng, optimizer, trained, test_losses, wlog, metric>>

\* lines 390-395
CreateOptimizer ==
    /\ r_pc = "model"
    /\ optimizer' = [params_of |-> models[Len(models)].id, lr |-> Config("lr"),
                     scheduler |-> IF Config("scheduler") = PyBool(TRUE)
                                   THEN "ReduceLROnPlateau" ELSE "None"]
    /\ trace' = Step(trace, "train")
    /\ r_pc' = "optimizer"
    /\ UNCHANGED <<mainVars, evalVars, dimVars, curvVars, env, prev, run, wandb_config, run_name, files, config_json,
                   rng, models, trained, test_losses, wlog, metric>>

\* no branch of lines 342-387 was taken: line 390 reads the unassigned
\* local `model`, and the UnboundLocalError leaves main_run
CreateOptimizerUnbound ==
    /\ r_pc = "config_written"
    /\ ModelClass(Config("posterior_type").s) = "none"
    /\ r_pc' = "failed"
    /\ UNCHANGED <<mainVars, evalVars, dimVars, curvVars, env, prev, run, wandb_config, run_name, files, config_json,
                   rng, models, optimizer, trained, test_losses, wlog, trace, metric>>

\* lines 398-406
CreateTrain ==
    /\ r_pc = "optimizer"
    /\ trained' = [model |-> models[Len(models)].id, optimizer |-> optimizer]
    /\ test_losses' = TestLosses(wandb_config)
    /\ trace' = Step(trace, "train")
    /\ r_pc' = "trained"
    /\ UNCHANGED <<mainVars, evalVars, dimVars, curvVars, env, prev, run, wandb_config, run_name, files, config_json,
                   rng, models, optimizer, wlog, metric>>

(***************************************************************************)
(* training_plot_log (lines 409-438)                                       *)
(***************************************************************************)
\* lines 412-417
TrainingPlot ==
    /\ r_pc = "trained"
    /\ trace' = Step(trace, "plot_persist_artifacts")
    /\ r_pc' = "t_plotted"
    /\ UNCHANGED <<mainVars, evalVars, dimVars, curvVars, env, prev, run, wandb_config, run_name, files, config_json,
                   rng, models, optimizer, trained, test_losses, wlog, metric>>

\* lines 420-429
TrainingSave ==
    /\ r_pc = "t_plotted"
    /\ files' = files \cup {ModelPath(env, wandb_config), StateDictPath(env, wandb_config)}
    /\ trace' = Step(trace, "plot_persist_artifacts")
    /\ r_pc' = "t_saved"
    /\ UNCHANGED <<mainVars, evalVars, dimVars, curvVars, env, prev, run, wandb_config, run_name, config_json, rng,
                   models, optimizer, trained, test_losses, wlog, metric>>

\* lines 430-438
TrainingLog ==
    /\ r_pc = "t_saved"
    /\ wlog' = Append(wlog, {"fig_loss", "fig_latent", "fig_recon", "fig_recon_per_time"})
    /\ trace' = Step(trace, "log_dashboard")
    /\ r_pc' = "t_logged"
    /\ UNCHANGED <<mainVars, evalVars, dimVars, curvVars, env, prev, run, wandb_config, run_name, files, config_json,
                   rng, models, optimizer, trained, test_losses, metric>>

(***************************************************************************)
(* curvature_compute_plot_log (lines 441-593)                              *)
(***************************************************************************)
\* A statement reads names and then assigns names.  Executing a sequence of
\* statements records every name read while nothing is assigned to it.
Statement(reads, assigns) == [reads |-> reads, assigns |-> assigns]

RECURSIVE Execute(_, _)
Execute(stmts, st) ==
    IF stmts = <<>> THEN st
    ELSE Execute(Tail(stmts),
             [assigned |-> st.assigned \cup Head(stmts).assigns,
              unbound |-> st.unbound \cup (Head(stmts).reads \ st.assigned)])

\* the parameters, line 441
CurvParameters == {"config", "dataset", "labels", "model"}

\* lines 445-493
CurvLearnedStatements(dataset_name) ==
    <<Statement({}, {"start_time"}),
      Statement({"model", "config", "dataset"},
                {"z_grid", "geodesic_dist", "curv_norms_learned"}),
      Statement({"geodesic_dist", "curv_norms_learned"}, {"curv_norm_learned_profile"})>>
    \o (IF dataset_name \in {"s1_synthetic", "experimental", "three_place_cells_synthetic"}
        THEN <<Statement({"curv_norm_learned_profile", "z_grid"},
                         {"curv_norm_learned_profile.z_grid"})>>
        ELSE IF dataset_name \in {"s2_synthetic", "t2_synthetic", "grid_cells"}
        THEN <<Statement({"curv_norm_learned_profile", "z_grid"},
                         {"curv_norm_learned_profile.z_grid_theta",
                          "curv_norm_learned_profile.z_grid_phi"})>>
        ELSE <<>>)
    \o (IF dataset_name = "experimental"
        THEN <<Statement({"curv_norm_learned_profile", "curv_norm_learned_profile.z_grid",
                          "labels"},
                         {"mean_velocities", "median_velocities", "std_velocities",
                          "min_velocities", "max_velocities"}),
               Statement({"curv_norm_learned_profile", "mean_velocities",
                          "median_velocities", "std_velocities", "min_velocities",
                          "max_velocities"},
                         {"curv_norm_learned_profile.mean_velocities",
                          "curv_norm_learned_profile.median_velocities",
                          "curv_norm_learned_profile.std_velocities",
                          "curv_norm_learned_profile.min_velocities",
                          "curv_norm_learned_profile.max_velocities"})>>
        ELSE <<>>)

\* lines 496-501
CurvLearnedSaveStatements == <<Statement({"curv_norm_learned_profile", "config"}, {})>>

\* lines 502-506
CurvLearnedLogStatements ==
    <<Statement({"curv_norm_learned_profile"}, {}),
      Statement({"start_time"}, {"comp_time_learned"}),
      Statement({}, {"norm_val"})>>

\* lines 508-539
CurvTrueStatements(dataset_name) ==
    <<Statement({}, {"start_time"}),
      Statement({"config"}, {"z_grid", "geodesic_dist", "curv_norms_true"}),
      Statement({"start_time"}, {"comp_time_true"}),
      Statement({"z_grid", "curv_norms_learned", "curv_norms_true", "config"},
                {"curvature_error"}),
      Statement({"curv_norms_true"}, {"norm_val"}),
      Statement({"geodesic_dist", "curv_norms_true"}, {"curv_norm_true_profile"}),
      Statement({"curv_norm_true_profile", "z_grid"},
                IF dataset_name = "s1_synthetic"
                THEN {"curv_norm_true_profile.z_grid"}
                ELSE {"curv_norm_true_profile.z_grid_theta",
                      "curv_norm_true_profile.z_grid_phi"}),
      Statement({"curv_norm_true_profile", "config"}, {})>>

\* lines 542-567
CurvPlotStatements(dataset_name) ==
    <<Statement({"z_grid", "curv_norms_learned", "config", "norm_val"},
                {"fig_curv_norms_learned"})>>
    \o (IF HasTrueCurvature(dataset_name)
        THEN <<Statement({"z_grid", "curv_norms_true", "config"}, {"fig_curv_norms_true"})>>
        ELSE <<>>)
    \o (IF HasNeuralManifoldFigure(dataset_name)
        THEN <<Statement({"curv_norm_learned_profile", "config", "labels"},
                         {"fig_neural_manifold_learned"})>>
        ELSE <<>>)

\* lines 569-592
CurvLogStatements(dataset_name) ==
    <<Statement({"comp_time_learned", "curv_norms_learned", "fig_curv_norms_learned"}, {})>>
    \o (IF HasTrueCurvature(dataset_name)
        THEN <<Statement({"comp_time_true", "curv_norms_true", "curvature_error",
                          "fig_curv_norms_true"}, {})>>
        ELSE IF dataset_name \in {"experimental", "three_place_cells_synthetic"}
        THEN <<Statement({"fig_neural_manifold_learned"}, {})>>
        ELSE <<>>)

\* the call executes a sequence of statements
CurvExecute(stmts) ==
    LET st == Execute(stmts, [assigned |-> c_assigned, unbound |-> c_unbound])
    IN  /\ c_assigned' = st.assigned
        /\ c_unbound' = st.unbound

\* lines 445-493
CurvLearned ==
    /\ r_pc = "t_logged"
    /\ trace' = Step(trace, "curvature_profiles")
    /\ r_pc' = "c_learned"
    /\ LET st == Execute(CurvLearnedStatements(Config("dataset_name").s),
                         [assigned |-> CurvParameters, unbound |-> {}])
       IN  /\ c_assigned' = st.assigned
           /\ c_unbound' = st.unbound
    /\ UNCHANGED <<mainVars, evalVars, dimVars, env, prev, run, wandb_config, run_name, files, config_json,
                   rng, models, optimizer, trained, test_losses, wlog, metric>>

\* lines 496-501
CurvLearnedSave ==
    /\ r_pc = "c_learned"
    /\ files' = files \cup {LearnedProfilePath(env, wandb_config)}
    /\ trace' = Step(trace, "curvature_profiles")
    /\ r_pc' = "c_learned_saved"
    /\ CurvExecute(CurvLearnedSaveStatements)
    /\ UNCHANGED <<mainVars, evalVars, dimVars, env, prev, run, wandb_config, run_name, config_json, rng,
                   models, optimizer, trained, test_losses, wlog, metric>>

\* lines 502-506
CurvLearnedLog ==
    /\ r_pc = "c_learned_saved"
    /\ wlog' = Append(wlog, {"curv_norm_learned_profile"})
    /\ trace' = Step(trace, "log_dashboard")
    /\ r_pc' = "c_learned_logged"
    /\ CurvExecute(CurvLearnedLogStatements)
    /\ UNCHANGED <<mainVars, evalVars, dimVars, env, prev, run, wandb_config, run_name, files, config_json,
                   rng, models, optimizer, trained, test_losses, metric>>

\* lines 507-539, the dataset has a true curvature
CurvTrue ==
    /\ r_pc = "c_learned_logged"
    /\ HasTrueCurvature(Config("dataset_name").s)
    /\ files' = files \cup {TrueProfilePath(env, wandb_config)}
    /\ trace' = Step(trace, "curvature_profiles")
    /\ r_pc' = "c_true"
    /\ CurvExecute(CurvTrueStatements(Config("dataset_name").s))
    /\ UNCHANGED <<mainVars, evalVars, dimVars, env, prev, run, wandb_config, run_name, config_json, rng,
                   models, optimizer, trained, test_losses, wlog, metric>>

\* line 507, it has none
CurvNoTrue ==
    /\ r_pc = "c_learned_logged"
    /\ ~HasTrueCurvature(Config("dataset_name").s)
    /\ r_pc' = "c_true"
    /\ UNCHANGED <<mainVars, evalVars, dimVars, curvVars, env, prev, run, wandb_config, run_name, files, config_json,
                   rng, models, optimizer, trained, test_losses, wlog, trace, metric>>

\* lines 542-567
CurvPlot ==
    /\ r_pc = "c_true"
    /\ trace' = Step(trace, "curvature_profiles")
    /\ r_pc' = "c_plotted"
    /\ CurvExecute(CurvPlotStatements(Config("dataset_name").s))
    /\ UNCHANGED <<mainVars, evalVars, dimVars, env, prev, run, wandb_config, run_name, files, config_json,
                   rng, models, optimizer, trained, test_losses, wlog, metric>>

\* the wandb.log calls of lines 569-592
CurvLogCalls(dataset_name) ==
    <<{"comp_time_curv_learned", "average_curv_norms_learned", "std_curv_norms_learned",
       "fig_curv_norms_learned"}>>
    \o (IF HasTrueCurvature(dataset_name)
        THEN <<{"comp_time_curv_true", "average_curv_norms_true", "std_curv_norms_true",
                "curvature_error", "fig_curv_norms_true"}>>
        ELSE IF dataset_name \in {"experimental", "three_place_cells_synthetic"}
        THEN <<{"fig_neural_manifold_learned"}>>
        ELSE <<>>)

\* lines 569-593
CurvLog ==
    /\ r_pc = "c_plotted"
    /\ wlog' = wlog \o CurvLogCalls(Config("dataset_name").s)
    /\ trace' = Step(trace, "log_dashboard")
    /\ r_pc' = "c_logged"
    /\ CurvExecute(CurvLogStatements(Config("dataset_name").s))
    /\ UNCHANGED <<mainVars, evalVars, dimVars, env, prev, run, wandb_config, run_name, files, config_json,
                   rng, models, optimizer, trained, test_losses, metric>>

\* line 298
RunFinish ==
    /\ r_pc = "c_logged"
    /\ trace' = Step(trace, "finish_dashboard")
    /\ r_pc' = "finished"
    /\ UNCHANGED <<mainVars, evalVars, dimVars, curvVars, env, prev, run, wandb_config, run_name, files, config_json,
                   rng, models, optimizer, trained, test_losses, wlog, metric>>

\* line 301
RunReturn ==
    /\ r_pc = "finished"
    /\ metric' = Metric(test_losses)
    /\ trace' = Step(trace, "return_metric")
    /\ r_pc' = "returned"
    /\ UNCHANGED <<mainVars, evalVars, dimVars, curvVars, env, prev, run, wandb_config, run_name, files, config_json,
                   rng, models, optimizer, trained, test_losses, wlog>>

NextRun ==
    \/ RunStart
    \/ RunMerge
    \/ RunLoad
    \/ RunWriteConfig
    \/ CreateSeed
    \/ CreateModel
    \/ CreateOptimizer
    \/ CreateOptimizerUnbound
    \/ CreateTrain
    \/ TrainingPlot
    \/ TrainingSave
    \/ TrainingLog
    \/ CurvLearned
    \/ CurvLearnedSave
    \/ CurvLearnedLog
    \/ CurvTrue
    \/ CurvNoTrue
    \/ CurvPlot
    \/ CurvLog
    \/ RunFinish
    \/ RunReturn

SpecRun == InitRun /\ [][NextRun]_vars

(***************************************************************************)
(* Claims about main_run and the functions it calls.                       *)
(***************************************************************************)
RunEnded == r_pc \in {"returned", "failed"}

\* the run before and the current run got the same fixed and sweep-chosen
\* configuration values
SameConfig ==
    /\ prev # NoValue
    /\ run # NoValue
    /\ prev.fixed = FixedConfig(env, run.call)
    /\ prev.chosen = run.sweep_config

\* C3 as claimed: two runs with equal configuration values have the same
\* run name and wrote the same paths.
C3_ConfigAloneDeterminesNames ==
    (RunEnded /\ SameConfig) => (prev.run_name = run_name /\ prev.files = files)

\* C3: two runs with equal configuration values have the same run name
\* exactly when wandb gave them the same run id, and then they wrote the
\* same paths: name and paths depend on the configuration and the run id.
C3_ConfigAndRunIdDetermineNames ==
    (RunEnded /\ SameConfig) =>
        /\ (prev.run_id = run.run_id) <=> (prev.run_name = run_name)
        /\ (prev.run_id = run.run_id) <=> (prev.files = files)

C3_Witness ==
    /\ r_pc = "returned"
    /\ SameConfig
    /\ prev.run_id = run.run_id
    /\ Cardinality(files) >= 4

\* position of the last "/" of a path, 0 if it has none
RECURSIVE LastSlash(_, _)
LastSlash(path, i) ==
    IF i = 0 THEN 0
    ELSE IF SubSeq(path, i, i) = "/" THEN i ELSE LastSlash(path, i - 1)

FileName(path) == SubSeq(path, LastSlash(path, Len(path)) + 1, Len(path))
StartsWith(str, prefix) ==
    Len(str) >= Len(prefix) /\ SubSeq(str, 1, Len(prefix)) = prefix

TrainingSaved ==
    r_pc \in {"t_saved", "t_logged", "c_learned", "c_learned_saved", "c_learned_logged",
              "c_true", "c_plotted", "c_logged", "finished", "returned"}

\* C4: the name of every file a run writes starts with the run's run_name;
\* the model file and the state-dict file exist once training_plot_log has
\* saved; runs with different run names write no path in common.
C4_FilesNamedByRun ==
    /\ \A f \in files : run_name # "" /\ StartsWith(FileName(f), run_name)
    /\ TrainingSaved =>
          /\ (env.trained_models_dir \o "/" \o run_name \o "_model.pt") \in files
          /\ (env.trained_models_dir \o "/" \o run_name \o "_model_state_dict.pth") \in files
    /\ r_pc \notin {"idle", "init", "merged", "loaded"} =>
          (env.configs_dir \o "/" \o run_name \o ".json") \in files
    /\ (prev # NoValue /\ prev.run_name # run_name) => prev.files \cap files = {}

C4_Witness ==
    /\ r_pc = "returned"
    /\ prev # NoValue
    /\ prev.outcome = "returned"
    /\ prev.run_name # run_name
    /\ Cardinality(files) = 5
    /\ Cardinality(prev.files) = 5

\* the class the claim gives a tag
ClaimedClass(tag) ==
    CASE tag = "gaussian" -> "NeuralVAE"
      [] tag = "hyperspherical" -> "NeuralVAE"
      [] tag = "toroidal" -> "ToroidalVAE"
      [] tag = "klein_bottle" -> "KleinBottleVAE"
      [] OTHER -> "no class"

\* config.posterior_type of the current run
RunTag == FixedConfig(env, run.call)["posterior_type"].s

\* the positions of a run after create_model_and_train_test has ended
AfterCreate ==
    {"trained", "t_plotted", "t_saved", "t_logged", "c_learned", "c_learned_saved",
     "c_learned_logged", "c_true", "c_plotted", "c_logged", "finished", "returned",
     "failed"}

\* exactly one model, of the class of the tag, whose parameters the
\* optimizer got and which train.train_test got with that optimizer
OneModelTrained ==
    /\ Len(models) = 1
    /\ models[1].cls = ClaimedClass(RunTag)
    /\ optimizer # NoValue
    /\ optimizer.params_of = models[1].id
    /\ trained # NoValue
    /\ trained.model = models[1].id
    /\ trained.optimizer = optimizer

\* C5 as claimed: every call of create_model_and_train_test instantiates
\* exactly one model, of the class its tag selects, gives its parameters to
\* the optimizer and forwards it to train.train_test.
C5_OneModelPerCall ==
    r_pc \in AfterCreate => OneModelTrained

C5_State ==
    \* never more than one model, and only of the class of the tag
    /\ Len(models) <= 1
    /\ \A i \in 1..Len(models) :
          /\ RunTag \in {"gaussian", "hyperspherical", "toroidal", "klein_bottle"}
          /\ models[i].cls = ClaimedClass(RunTag)
    \* the optimizer and train.train_test get that model
    /\ optimizer # NoValue => (Len(models) = 1 /\ optimizer.params_of = models[1].id)
    /\ trained # NoValue =>
          /\ Len(models) = 1
          /\ trained.model = models[1].id
          /\ trained.optimizer = optimizer
          /\ optimizer # NoValue
    \* under the four tags the call ends with exactly one model, trained;
    \* under any other tag it ends in the error, with none
    /\ r_pc \in AfterCreate =>
          IF RunTag \in {"gaussian", "hyperspherical", "toroidal", "klein_bottle"}
          THEN r_pc # "failed" /\ OneModelTrained
          ELSE r_pc = "failed" /\ models = <<>> /\ optimizer = NoValue /\ trained = NoValue

\* C5: under the tags gaussian and hyperspherical (NeuralVAE), toroidal
\* (ToroidalVAE) and klein_bottle (KleinBottleVAE) a call of
\* create_model_and_train_test instantiates exactly one model, of that class,
\* gives its parameters to the optimizer and forwards it to train.train_test:
\* the call goes from the dispatch to the model, the optimizer and the
\* training, and never fails.  Under any other tag it instantiates no model.
C5_DispatchByPosteriorType ==
    /\ []C5_State
    /\ [][(r_pc = "config_written"
              /\ RunTag \in {"gaussian", "hyperspherical", "toroidal", "klein_bottle"})
            => (r_pc' = "seeded" /\ models' = models)]_vars
    /\ [][r_pc = "seeded" =>
            (r_pc' = "model" /\ Len(models') = Len(models) + 1)]_vars
    /\ [][r_pc = "model" => (r_pc' = "optimizer" /\ models' = models)]_vars
    /\ [][r_pc = "optimizer" => (r_pc' = "trained" /\ models' = models)]_vars

C5_Witness ==
    /\ r_pc = "trained"
    /\ models[1].cls = "KleinBottleVAE"

\* C6: every model is constructed with the Python and torch generators, and
\* the CUDA generators when CUDA is available, just reset to seed 0; two runs
\* with the same configuration construct their models from the same
\* generator states.
C6_SeededInstantiation ==
    /\ \A i \in 1..Len(models) :
          /\ models[i].init_rng.py = 0
          /\ models[i].init_rng.torch = 0
          /\ env.cuda => models[i].init_rng.cuda = 0
    /\ (SameConfig /\ models # <<>> /\ prev.init_rng # NoValue) =>
          prev.init_rng = models[1].init_rng

\* a second run with the same configuration has constructed its model, on a
\* machine with CUDA, in a branch other than the first
C6_Witness ==
    /\ SameConfig
    /\ r_pc = "model"
    /\ prev.init_rng # NoValue
    /\ env.cuda
    /\ models[1].cls = "ToroidalVAE"

IsPrefix(p, q) == Len(p) <= Len(q) /\ SubSeq(q, 1, Len(p)) = p

RECURSIVE Dedupe(_)
Dedupe(q) ==
    IF Len(q) <= 1 THEN q
    ELSE IF q[1] = q[2] THEN Dedupe(Tail(q)) ELSE <<q[1]>> \o Dedupe(Tail(q))

ClaimedOrder ==
    <<"merge_config", "load_dataset", "write_config", "instantiate_model", "train",
      "plot_persist_artifacts", "curvature_profiles", "log_dashboard",
      "finish_dashboard", "return_metric">>

NotLog(step) == step # "log_dashboard"

\* C7 as claimed: the steps of a run are taken in the claimed order, each
\* at most once.
C7_ClaimedPipeline == IsPrefix(trace, ClaimedOrder)

\* C7: leaving the dashboard logging aside, the steps of a run are taken in
\* the claimed order, each at most once, and a run that returns took them
\* all and returns the minimum of the test losses; the dashboard is logged
\* to several times, after the artifacts are persisted and before the
\* dashboard run is finished, the first time before any curvature profile
\* is computed.
C7_Pipeline ==
    /\ IsPrefix(Dedupe(SelectSeq(trace, NotLog)), SelectSeq(ClaimedOrder, NotLog))
    /\ \A i \in 1..Len(trace) :
          /\ trace[i] = "log_dashboard" =>
                /\ \E j \in 1..(i - 1) : trace[j] = "plot_persist_artifacts"
                /\ \A j \in 1..(i - 1) : trace[j] # "finish_dashboard"
          /\ trace[i] = "curvature_profiles" =>
                \E j \in 1..(i - 1) : trace[j] = "log_dashboard"
    /\ r_pc = "returned" =>
          /\ Dedupe(SelectSeq(trace, NotLog)) = SelectSeq(ClaimedOrder, NotLog)
          /\ \E i \in 1..Len(test_losses) : metric.test_loss = test_losses[i]
          /\ \A i \in 1..Len(test_losses) : metric.test_loss <= test_losses[i]

C7_Witness ==
    /\ r_pc = "returned"
    /\ Len(test_losses) = 3
    /\ Len(SelectSeq(trace, NotLog)) < Len(trace) - 2

\* C8 as claimed: the JSON holds every key of fixed_config and of the
\* sweep-chosen configuration, and no value of it is a mapping.
C8_FlatConfigJson ==
    config_json # NoValue =>
        /\ FixedKeys \cup SweepKeys \subseteq DOMAIN config_json
        /\ \A key \in DOMAIN config_json : config_json[key].ty # "dict"

\* C8: the JSON holds every key of fixed_config and of the sweep-chosen
\* configuration with the values main_sweep and the tuner gave them; the
\* value of "wandb" is a mapping (holding the API key), no other value is.
C8_ConfigJson ==
    config_json # NoValue =>
        /\ FixedKeys \cup SweepKeys \subseteq DOMAIN config_json
        /\ config_json["dataset_name"] = PyStr(run.call.dataset_name)
        /\ config_json["sweep_name"] = PyStr(run.call.sweep_name)
        /\ \A key \in ParamNames : config_json[key] = run.call.params[key]
        /\ \A key \in SweepKeys : config_json[key] = run.sweep_config[key]
        /\ \A key \in DOMAIN config_json \ {"wandb"} : config_json[key].ty # "dict"
        /\ config_json["wandb"].ty = "dict"
        /\ DOMAIN config_json["wandb"].items = {"api_key"}

C8_Witness ==
    /\ config_json # NoValue
    /\ config_json["lr"] = PyFloat(2)
    /\ config_json["noise_var"] # PyNone

\* C10: the learned profile is written for every dataset name; the true
\* profile is written and curvature_error is logged exactly for
\* s1_synthetic, s2_synthetic and t2_synthetic.
C10_TrueProfileOnlySynthetic ==
    run # NoValue =>
        LET name == run.call.dataset_name
            synthetic == name = "s1_synthetic" \/ name = "s2_synthetic"
                            \/ name = "t2_synthetic"
            learned == env.curvature_profiles_dir \o "/" \o run_name
                          \o "_curv_norm_learned_profile.csv"
            true == env.curvature_profiles_dir \o "/" \o run_name
                          \o "_curv_norm_true_profile.csv"
            logged == UNION Range(wlog)
        IN  /\ r_pc \in {"c_learned_saved", "c_learned_logged", "c_true", "c_plotted",
                         "c_logged", "finished", "returned"} => learned \in files
            /\ true \in files => synthetic
            /\ "curvature_error" \in logged => synthetic
            /\ r_pc \in {"c_true", "c_plotted", "c_logged", "finished", "returned"} =>
                  (synthetic => true \in files)
            /\ r_pc \in {"c_logged", "finished", "returned"} =>
                  (synthetic => "curvature_error" \in logged)

C10_Witness ==
    /\ r_pc = "returned"
    /\ run.call.dataset_name = "grid_cells"
    /\ Cardinality(files) = 4

(***************************************************************************)
(* SpecEval: calls of evaluate_pls_with_different_K and                    *)
(* evaluate_PCA_with_different_K.                                          *)
(***************************************************************************)
\* longest K_values
MaxK == 2
KChoices == {1, 2, 3}
\* the data sets (X, Y) a call can be given
DataSets == {"data_a", "data_b"}

PyList(items) == [ty |-> "list", items |-> items]
PyTuple(items) == [ty |-> "tuple", items |-> items]

\* train_test_split(X, Y, test_size=0.2, random_state=42), lines 136, 183
TrainTestSplit(data) == [of |-> data, test_size |-> PyFloat(2), random_state |-> 42]

\* lines 142-150: PLSRegression(n_components=K) fitted on X_train, Y_train;
\* X projected with it
PlsProjection(K, split) == [fit |-> "PLSRegression", n_components |-> K, on |-> split]
\* lines 189-197: PCA(n_components=K) fitted on X_train; X projected with it
PcaProjection(K, split) == [fit |-> "PCA", n_components |-> K, on |-> split]

\* lines 153-161, 200-208: the R^2 score, on the test part of the split, of
\* the regression fitted on the projected training part
R2Score(projection) == [r2_of |-> projection]

InitEval ==
    /\ MainIdle
    /\ RunIdle
    /\ EvalIdle
    /\ DimIdle

\* a call: lines 132-133 and 178-179 set the two lists
EvalCall ==
    /\ e_pc \in {"idle", "returned"}
    /\ e_func' \in {"evaluate_pls_with_different_K", "evaluate_PCA_with_different_K"}
    /\ \E data \in DataSets, ks \in SeqsUpTo(KChoices, 0, MaxK) :
          e_args' = [data |-> data, K_values |-> ks]
    /\ e_splits' = <<>>
    /\ e_i' = 0
    /\ r2_scores' = <<>>
    /\ projected_X' = <<>>
    /\ e_ret' = NoValue
    /\ e_pc' = "split"
    /\ UNCHANGED <<mainVars, runVars, dimVars>>

\* lines 136-138 and 183-185
EvalSplit ==
    /\ e_pc = "split"
    /\ e_splits' = Append(e_splits, TrainTestSplit(e_args.data))
    /\ e_pc' = "loop"
    /\ UNCHANGED <<mainVars, runVars, dimVars, e_func, e_args, e_i, r2_scores, projected_X, e_ret>>

\* one iteration of the loop of lines 140-162
EvalPlsIteration ==
    /\ e_pc = "loop"
    /\ e_func = "evaluate_pls_with_different_K"
    /\ e_i < Len(e_args.K_values)
    /\ LET pls == PlsProjection(e_args.K_values[e_i + 1], e_splits[Len(e_splits)])
       IN  /\ projected_X' = Append(projected_X, pls)
           /\ r2_scores' = Append(r2_scores, R2Score(pls))
    /\ e_i' = e_i + 1
    /\ UNCHANGED <<mainVars, runVars, dimVars, e_pc, e_func, e_args, e_splits, e_ret>>

\* one iteration of the loop of lines 187-209
EvalPcaIteration ==
    /\ e_pc = "loop"
    /\ e_func = "evaluate_PCA_with_different_K"
    /\ e_i < Len(e_args.K_values)
    /\ LET pca == PcaProjection(e_args.K_values[e_i + 1], e_splits[Len(e_splits)])
       IN  /\ projected_X' = Append(projected_X, pca)
           /\ r2_scores' = Append(r2_scores, R2Score(pca))
    /\ e_i' = e_i + 1
    /\ UNCHANGED <<mainVars, runVars, dimVars, e_pc, e_func, e_args, e_splits, e_ret>>

\* lines 164 and 211
EvalReturn ==
    /\ e_pc = "loop"
    /\ e_i = Len(e_args.K_values)
    /\ e_ret' = PyTuple(<<PyList(r2_scores), PyList(projected_X)>>)
    /\ e_pc' = "returned"
    /\ UNCHANGED <<mainVars, runVars, dimVars, e_func, e_args, e_splits, e_i, r2_scores, projected_X>>

NextEval ==
    \/ EvalCall
    \/ EvalSplit
    \/ EvalPlsIteration
    \/ EvalPcaIteration
    \/ EvalReturn

SpecEval == InitEval /\ [][NextEval]_vars

\* C9: what either function returns is a list of len(K_values) scores, the
\* i-th computed with K_values[i] components, all on the one train/test
\* split made before the loop.
C9_ReturnsListOfScores ==
    e_pc = "returned" =>
        /\ e_ret.ty = "list"
        /\ Len(e_ret.items) = Len(e_args.K_values)
        /\ Len(e_splits) = 1
        /\ \A i \in 1..Len(e_args.K_values) :
              /\ e_ret.items[i].r2_of.n_components = e_args.K_values[i]
              /\ e_ret.items[i].r2_of.on = e_splits[1]

(***************************************************************************)
(* Claims about the sweeps main launches.                                  *)
(***************************************************************************)
\* the Cartesian product of a sequence of lists, as the sequence of its
\* tuples in lexicographic order of the positions
RECURSIVE Product(_)
Product(lists) ==
    IF lists = <<>> THEN << <<>> >>
    ELSE LET rest == Product(Tail(lists))
         IN  [k \in 1..(Len(Head(lists)) * Len(rest)) |->
                 <<Head(lists)[((k - 1) \div Len(rest)) + 1]>> \o rest[((k - 1) % Len(rest)) + 1]]

\* one (dataset name, tuple) pair per element of the product of the lists
\* of the first i dataset names, in the order of the names and of the product
RECURSIVE Combinations(_)
Combinations(i) ==
    IF i = 0 THEN <<>>
    ELSE LET name == cfg.dataset_name[i]
             tuples == Product(FamilyLists(cfg, name))
         IN  Combinations(i - 1)
                \o [k \in 1..Len(tuples) |-> [dataset_name |-> name, tuple |-> tuples[k]]]

AllCombinations == Combinations(Len(cfg.dataset_name))

\* the (dataset name, tuple) pairs main called main_sweep with, in order
MadeCalls ==
    [c \in 1..Len(calls) |->
        [dataset_name |-> calls[c].dataset_name, tuple |-> CallTuple(calls[c])]]

MainEnded == m_pc \in {"done", "raised"}

\* C11 as claimed: when main has ended it has called main_sweep exactly once
\* per element of the product of every configured dataset name, in order.
C11_OneSweepPerCombination ==
    MainEnded => MadeCalls = AllCombinations

\* the tuple at 0-based position k of the product of the lists in
\* lexicographic order: the first list's value changes once per product of
\* the other lists
RECURSIVE TupleAt(_, _)
TupleAt(lists, k) ==
    IF lists = <<>> THEN <<>>
    ELSE LET size == ProductSize(Tail(lists))
         IN  <<Head(lists)[(k \div size) + 1]>> \o TupleAt(Tail(lists), k % size)

\* how many combinations the dataset names from the i-th on have
RECURSIVE NumCombinations(_)
NumCombinations(i) ==
    IF i > Len(cfg.dataset_name) THEN 0
    ELSE ProductSize(FamilyLists(cfg, cfg.dataset_name[i])) + NumCombinations(i + 1)

\* the combination at 0-based position k among those of the dataset names
\* from the i-th on
RECURSIVE CombinationAt(_, _)
CombinationAt(i, k) ==
    LET name == cfg.dataset_name[i]
        lists == FamilyLists(cfg, name)
    IN  IF k < ProductSize(lists)
        THEN [dataset_name |-> name, tuple |-> TupleAt(lists, k)]
        ELSE CombinationAt(i + 1, k - ProductSize(lists))

C11_State ==
    LET n == Len(calls)
        total == NumCombinations(1)
    IN  \* the call made last is the combination at its position
        /\ n <= total
        /\ n > 0 =>
              [dataset_name |-> calls[n].dataset_name, tuple |-> CallTuple(calls[n])]
                  = CombinationAt(1, n - 1)
        \* main returns when every combination had its call
        /\ m_pc = "done" => n = total
        \* and raises at the first rejected combination
        /\ m_pc = "raised" =>
              /\ n < total
              /\ LET next == CombinationAt(1, n)
                 IN  TooSmall(next.dataset_name, next.tuple[2])
        \* every sweep but the one running has completed
        /\ Len(fits) = n - (IF m_pc = "sweep" THEN 1 ELSE 0)
        /\ Len(fits) > 0 => fits[Len(fits)] = calls[Len(fits)].sweep_name

\* calls and fits grow by one element at the end, and a call is made only
\* when the tuner.fit() of every earlier call has returned
C11_Step ==
    /\ calls' # calls =>
          /\ calls = SubSeq(calls', 1, Len(calls')  - 1)
          /\ m_pc = "loop"
          /\ Len(fits) = Len(calls)
    /\ fits' # fits => fits = SubSeq(fits', 1, Len(fits') - 1)

\* C11: main calls main_sweep once per element of the product of each
\* configured dataset name (once for three_place_cells_synthetic), in the
\* order of the names and of the product, up to the end of the names or to
\* the first combination that raises ValueError; a main_sweep call starts
\* only when the tuner.fit() of every earlier call has returned.
C11_SweepsInOrder ==
    /\ []C11_State
    /\ [][C11_Step]_vars

\* main returned after the sweeps of a product of two lists of two values
\* and the sweep of three_place_cells_synthetic
C11_Witness ==
    /\ m_pc = "done"
    /\ Len(calls) >= 5
    /\ Len(fits) = Len(calls)
    /\ \E c \in 1..Len(calls) : calls[c].dataset_name = "three_place_cells_synthetic"

\* the dataset names under which a dataset-specific parameter may be set
FamilyOf(p) ==
    CASE p \in {"expt_id", "timestep_microsec", "smooth", "select_gain_1"} ->
            {"experimental"}
      [] p \in {"n_times", "embedding_dim", "geodesic_distortion_amp", "noise_var"} ->
            {"s1_synthetic", "s2_synthetic", "t2_synthetic"}
      [] p \in {"grid_scale", "arena_dims", "n_cells", "grid_orientation_mean",
                "grid_orientation_std", "field_width", "resolution"} ->
            {"grid_cells"}

\* in a fixed configuration, the parameters of the other families are None
OnlyOwnFamily(fixed_config) ==
    \A p \in ParamNames :
        fixed_config[p] # PyNone => fixed_config["dataset_name"].s \in FamilyOf(p)

\* C12: in the fixed configuration of every sweep main launches, a
\* dataset-specific parameter is non-None only under a dataset name of its
\* family; under three_place_cells_synthetic all of them are None.
C12_FamilyParametersOnly ==
    [][calls' # calls => OnlyOwnFamily(FixedConfig(env, calls'[Len(calls')]))]_vars

\* main launched a grid_cells sweep, whose fixed configuration has the grid
\* parameters and no other, and a three_place_cells_synthetic sweep
C12_Witness ==
    /\ m_pc = "done"
    /\ \E c \in 1..Len(calls) :
          /\ calls[c].dataset_name = "grid_cells"
          /\ FixedConfig(env, calls[c])["n_cells"] # PyNone
          /\ FixedConfig(env, calls[c])["expt_id"] = PyNone
    /\ \E c \in 1..Len(calls) :
          /\ calls[c].dataset_name = "three_place_cells_synthetic"
          /\ \A p \in ParamNames : FixedConfig(env, calls[c])[p] = PyNone

(***************************************************************************)
(* SpecDim: skdim_dimension_estimation (dimension.py lines 19-55).         *)
(***************************************************************************)
\* longest `methods` list
MaxMethods == 2
\* longest `dimensions` list
MaxDims == 2
\* largest num_trials
MaxTrials == 2

\* names of estimators of skdim.id
MethodNames == {"lPCA", "TwoNN"}
\* line 30: the names dir(skdim.id) lists that do not start with "_"
AllMethods == <<"CorrInt", "TwoNN", "lPCA">>
ManifoldTypes == {"hypersphere", "hypertorus"}
DimensionChoices == {1, 2}

\* the `methods` arguments: the string "all" or a list of names
MethodsArgs == {PyStr("all")} \cup {PyList(q) : q \in SeqsUpTo(MethodNames, 0, MaxMethods)}

\* lines 29-30
ResolveMethods(methods) == IF methods = PyStr("all") THEN AllMethods ELSE methods.items

\* line 34: sqrt(1 / (ref_frequency * poisson_multiplier))
NoiseLevel(ref_frequency, poisson_multiplier) ==
    [sqrt_of_inverse |-> ref_frequency * poisson_multiplier]

\* line 39: np.zeros((rows, cols)); a cell holds its value and how many
\* times it was assigned
Zeros(rows, cols) ==
    [cell \in (1..rows) \X (1..cols) |-> [value |-> PyFloat(0), writes |-> 0]]

\* an assignment that always takes the first column
WriteCellFirstTrial(matrix, dim_idx, trial_idx, value) ==
    [matrix EXCEPT ![<<dim_idx, 1>>] = [value |-> value, writes |-> @.writes + 1]]

\* line 52: estimates[dim_idx, trial_idx] = value
WriteCell(matrix, dim_idx, trial_idx, value) ==
    [matrix EXCEPT ![<<dim_idx, trial_idx>>] = [value |-> value, writes |-> @.writes + 1]]

\* lines 41-49: the points of the manifold and the neural manifold made of
\* them; every generation draws a new cloud
PointCloud(args, dim, id) ==
    [generator |-> args.manifold_type, dim |-> dim, num_points |-> args.num_points,
     num_neurons |-> args.num_neurons, poisson_multiplier |-> args.poisson_multiplier,
     ref_frequency |-> args.ref_frequency, id |-> id]

\* lines 51-52: np.mean(method.dimension_) after method.fit(neural_manifold)
Estimate(method_name, cloud) == [mean_dimension_of |-> method_name, on |-> cloud.id]

InitDim ==
    /\ MainIdle
    /\ RunIdle
    /\ EvalIdle
    /\ DimIdle

\* the call: lines 29-36
DimCall ==
    /\ d_pc = "idle"
    /\ \E methods \in MethodsArgs, dimensions \in SeqsUpTo(DimensionChoices, 0, MaxDims),
          manifold_type \in ManifoldTypes, num_trials \in 0..MaxTrials,
          poisson_multiplier \in {1, 2} :
          /\ d_args' = [methods |-> methods, dimensions |-> dimensions,
                        manifold_type |-> manifold_type, num_trials |-> num_trials,
                        num_points |-> 50, num_neurons |-> 10,
                        poisson_multiplier |-> poisson_multiplier, ref_frequency |-> 200]
          /\ d_methods' = ResolveMethods(methods)
          /\ d_noise' = NoiseLevel(200, poisson_multiplier)
    /\ d_mi' = 0
    /\ d_di' = 0
    /\ d_ti' = 0
    /\ d_clouds' = <<>>
    /\ d_fits' = <<>>
    /\ estimates' = <<>>
    /\ id_estimates' = <<>>
    /\ d_ret' = NoValue
    /\ d_pc' = "methods"
    /\ UNCHANGED <<mainVars, runVars, evalVars>>

\* lines 37-39: the next method name, its estimator and its matrix
DimMethod ==
    /\ d_pc = "methods"
    /\ d_mi < Len(d_methods)
    /\ d_mi' = d_mi + 1
    /\ estimates' = Zeros(Len(d_args.dimensions), d_args.num_trials)
    /\ d_di' = 0
    /\ d_pc' = "dimensions"
    /\ UNCHANGED <<mainVars, runVars, evalVars, d_args, d_methods, d_noise, d_ti, d_clouds,
                   d_fits, id_estimates, d_ret>>

\* lines 40-49: the next dimension and its point cloud
DimPoints ==
    /\ d_pc = "dimensions"
    /\ d_di < Len(d_args.dimensions)
    /\ d_di' = d_di + 1
    /\ d_clouds' = Append(d_clouds,
           [method_idx |-> d_mi, dim_idx |-> d_di + 1,
            cloud |-> PointCloud(d_args, d_args.dimensions[d_di + 1], Len(d_clouds) + 1)])
    /\ d_ti' = 0
    /\ d_pc' = "trials"
    /\ UNCHANGED <<mainVars, runVars, evalVars, d_args, d_methods, d_noise, d_mi, d_fits,
                   estimates, id_estimates, d_ret>>

\* lines 50-52: one trial
DimTrial ==
    /\ d_pc = "trials"
    /\ d_ti < d_args.num_trials
    /\ d_ti' = d_ti + 1
    /\ LET neural_manifold == d_clouds[Len(d_clouds)].cloud
       IN  /\ d_fits' = Append(d_fits,
                  [method_idx |-> d_mi, dim_idx |-> d_di, trial_idx |-> d_ti + 1,
                   on |-> neural_manifold.id])
           /\ estimates' = WriteCell(estimates, d_di, d_ti + 1,
                  Estimate(d_methods[d_mi], neural_manifold))
    /\ UNCHANGED <<mainVars, runVars, evalVars, d_pc, d_args, d_methods, d_noise, d_mi, d_di,
                   d_clouds, id_estimates, d_ret>>

\* the loop of line 50 is exhausted
DimTrialsDone ==
    /\ d_pc = "trials"
    /\ d_ti = d_args.num_trials
    /\ d_pc' = "dimensions"
    /\ UNCHANGED <<mainVars, runVars, evalVars, d_args, d_methods, d_noise, d_mi, d_di, d_ti,
                   d_clouds, d_fits, estimates, id_estimates, d_ret>>

\* line 53, when the loop of line 40 is exhausted
DimStore ==
    /\ d_pc = "dimensions"
    /\ d_di = Len(d_args.dimensions)
    /\ id_estimates' =
           [name \in DOMAIN id_estimates \cup {d_methods[d_mi]} |->
               IF name = d_methods[d_mi] THEN estimates ELSE id_estimates[name]]
    /\ d_pc' = "methods"
    /\ UNCHANGED <<mainVars, runVars, evalVars, d_args, d_methods, d_noise, d_mi, d_di, d_ti,
                   d_clouds, d_fits, estimates, d_ret>>

\* line 55
DimReturn ==
    /\ d_pc = "methods"
    /\ d_mi = Len(d_methods)
    /\ d_ret' = PyTuple(<<PyDict(id_estimates), d_noise>>)
    /\ d_pc' = "returned"
    /\ UNCHANGED <<mainVars, runVars, evalVars, d_args, d_methods, d_noise, d_mi, d_di, d_ti,
                   d_clouds, d_fits, estimates, id_estimates>>

NextDim ==
    \/ DimCall
    \/ DimMethod
    \/ DimPoints
    \/ DimTrial
    \/ DimTrialsDone
    \/ DimStore
    \/ DimReturn

SpecDim == InitDim /\ [][NextDim]_vars

(***************************************************************************)
(* Claims about skdim_dimension_estimation.                                *)
(***************************************************************************)
\* the clouds generated for the method at position mi and the dimension at
\* position di, as positions in d_clouds
CloudsOf(mi, di) ==
    {c \in 1..Len(d_clouds) : d_clouds[c].method_idx = mi /\ d_clouds[c].dim_idx = di}

\* the fits made for the method at position mi and the dimension at di
FitsOf(mi, di) ==
    {f \in 1..Len(d_fits) : d_fits[f].method_idx = mi /\ d_fits[f].dim_idx = di}

\* the last position of a name in the list of methods
LastIndex(name) ==
    CHOOSE i \in 1..Len(d_methods) :
        d_methods[i] = name /\ \A j \in (i + 1)..Len(d_methods) : d_methods[j] # name

\* the returned mapping has one entry per requested name, each a matrix of
\* len(dimensions) rows and num_trials columns whose cells were written once
\* each, with an estimate made on the point cloud of the row
MappingAsClaimed(mapping) ==
    /\ mapping.ty = "dict"
    /\ DOMAIN mapping.items = Range(d_methods)
    /\ \A name \in DOMAIN mapping.items :
          LET matrix == mapping.items[name]
          IN  /\ DOMAIN matrix = (1..Len(d_args.dimensions)) \X (1..d_args.num_trials)
              /\ \A cell \in DOMAIN matrix :
                    /\ matrix[cell].writes = 1
                    /\ matrix[cell].value.mean_dimension_of = name
                    /\ matrix[cell].value.on
                          \in {d_clouds[c].cloud.id : c \in CloudsOf(LastIndex(name), cell[1])}

\* one point cloud per (method, dimension) pair, every fit of the pair on it
CloudsAsClaimed ==
    /\ \A c \in 1..Len(d_clouds) :
          CloudsOf(d_clouds[c].method_idx, d_clouds[c].dim_idx) = {c}
    /\ \A f \in 1..Len(d_fits) :
          \E c \in CloudsOf(d_fits[f].method_idx, d_fits[f].dim_idx) :
              d_fits[f].on = d_clouds[c].cloud.id
    /\ \A f, g \in 1..Len(d_fits) :
          (d_fits[f].method_idx = d_fits[g].method_idx
              /\ d_fits[f].dim_idx = d_fits[g].dim_idx
              /\ d_fits[f].trial_idx = d_fits[g].trial_idx) => f = g

AllCloudsAndFitsMade ==
    \A mi \in 1..Len(d_methods), di \in 1..Len(d_args.dimensions) :
        /\ Cardinality(CloudsOf(mi, di)) = 1
        /\ Cardinality(FitsOf(mi, di)) = d_args.num_trials

\* C13 as claimed: the function returns the mapping.
C13_ReturnsMapping ==
    d_pc = "returned" =>
        /\ MappingAsClaimed(d_ret)
        /\ CloudsAsClaimed
        /\ AllCloudsAndFitsMade

\* C13: skdim_dimension_estimation returns a pair: the mapping, with exactly
\* one entry per requested method name, each a matrix of len(dimensions) rows
\* by num_trials columns in which every cell is written exactly once, and
\* the noise level.  The point cloud is generated once per (method,
\* dimension) pair and all num_trials fits of the row are made on it.
C13_ReturnsMappingAndNoise ==
    /\ d_pc # "idle" =>
          /\ CloudsAsClaimed
          /\ \A cell \in DOMAIN estimates : estimates[cell].writes <= 1
          /\ d_args.methods # PyStr("all") => d_methods = d_args.methods.items
    /\ d_pc = "returned" =>
          /\ d_ret.ty = "tuple"
          /\ Len(d_ret.items) = 2
          /\ MappingAsClaimed(d_ret.items[1])
          /\ d_ret.items[2] = NoiseLevel(d_args.ref_frequency, d_args.poisson_multiplier)
          /\ AllCloudsAndFitsMade

\* the function returned after two trials on each of two dimensions for
\* each of two distinct methods
C13_Witness ==
    /\ d_pc = "returned"
    /\ Len(d_methods) = 2
    /\ d_methods[1] # d_methods[2]
    /\ Len(d_args.dimensions) = 2
    /\ d_args.num_trials = 2
    /\ Len(d_fits) = 8

(***************************************************************************)
(* Claims about the branches of create_model_and_train_test and of        *)
(* curvature_compute_plot_log.                                             *)
(***************************************************************************)
\* the run's configuration is merged and its posterior_type is none of the
\* four tags
UnknownTag ==
    /\ r_pc \notin {"idle", "init"}
    /\ Config("posterior_type").s
          \notin {"gaussian", "hyperspherical", "toroidal", "klein_bottle"}

C14_State ==
    \* under an unknown tag nothing is instantiated, built, trained, saved
    \* or returned, and the run goes no further than the failure
    /\ UnknownTag =>
          /\ models = <<>>
          /\ optimizer = NoValue
          /\ trained = NoValue
          /\ test_losses = <<>>
          /\ metric = NoValue
          /\ files \subseteq {ConfigPath(env, run_name)}
          /\ r_pc \in {"merged", "loaded", "config_written", "failed"}
    \* and only an unknown tag fails a run
    /\ r_pc = "failed" => UnknownTag

\* C14: when config.posterior_type is none of 'gaussian', 'hyperspherical',
\* 'toroidal', 'klein_bottle', create_model_and_train_test instantiates no
\* model and fails before an optimizer is built and before train.train_test
\* is called: the call can only end in the error, and the run never trains
\* or returns.
C14_UnknownTagFails ==
    /\ []C14_State
    /\ [][(UnknownTag /\ r_pc = "config_written") => r_pc' = "failed"]_vars
    /\ [][(UnknownTag /\ r_pc = "failed") => r_pc' = "init"]_vars

\* a run under the tag "other" has failed after writing its configuration
C14_Witness ==
    /\ r_pc = "failed"
    /\ Config("posterior_type") = PyStr("other")
    /\ files = {ConfigPath(env, run_name)}
    /\ models = <<>>

\* the names the claim lists, with the columns of both data frames
ClaimedNames ==
    {"comp_time_true", "curvature_error", "curv_norms_true", "fig_curv_norms_true",
     "fig_neural_manifold_learned", "curv_norm_learned_profile.z_grid",
     "curv_norm_learned_profile.z_grid_theta", "curv_norm_learned_profile.z_grid_phi",
     "curv_norm_true_profile.z_grid", "curv_norm_true_profile.z_grid_theta",
     "curv_norm_true_profile.z_grid_phi"}

\* what the last wandb.log calls of the call log, lines 569-592
LoggedLast(dataset_name) ==
    CASE dataset_name \in {"s1_synthetic", "s2_synthetic", "t2_synthetic"} ->
            {"comp_time_true", "curv_norms_true", "curvature_error", "fig_curv_norms_true"}
      [] dataset_name \in {"experimental", "three_place_cells_synthetic"} ->
            {"fig_neural_manifold_learned"}
      [] OTHER -> {}

\* C15: for every one of the six dataset names, curvature_compute_plot_log
\* reads no name before the branches taken for that dataset name have
\* assigned it, and what it logs at the end has been assigned.
C15_NoUnassignedRead ==
    /\ c_unbound = {}
    /\ r_pc \in {"c_logged", "finished", "returned"} =>
          LoggedLast(Config("dataset_name").s) \subseteq c_assigned

\* the call has plotted and logged for three_place_cells_synthetic, which
\* has the figure of the neural manifold and no true curvature
C15_Witness ==
    /\ r_pc = "c_logged"
    /\ Config("dataset_name") = PyStr("three_place_cells_synthetic")
    /\ "fig_neural_manifold_learned" \in c_assigned
    /\ "curv_norms_true" \notin c_assigned
    /\ {"fig_neural_manifold_learned"} \in Range(wlog)

====
